---- MODULE Spec2Model ----
(***************************************************************************)
(* A model of librpg/dialog.py: the greedy line wrapper (build_lines), the *)
(* box splitter (split_boxes), the four dialog variants and their          *)
(* process_event handlers, and the MessageQueue.                           *)
(*                                                                         *)
(* A string is a tuple of one-character strings.  A line is the pair       *)
(* <<height, text>> the source builds as [height, cur_line].               *)
(***************************************************************************)
EXTENDS Integers, Sequences, FiniteSets, TLC

VARIABLES
    pc,             \* position of the scenario being run
    text,           \* build_lines: the text argument
    box_width,      \* build_lines: the box_width argument
    lines,          \* build_lines: the returned list / split_boxes: the lines argument
    box_height,     \* split_boxes: the box_height argument
    line_spacing,   \* split_boxes: the line_spacing argument
    boxes,          \* split_boxes: the returned list / MultiMessageDialog.boxes
    \* a dialog and the configuration it is built under
    kind,           \* the class of the dialog
    block_movement, \* self.block_movement
    choices,        \* ChoiceDialog: self.choices
    choice_lines,   \* ChoiceDialog: self.choice_lines
    screen_width,   \* g_cfg.screen_width
    screen_height,  \* g_cfg.screen_height
    border_width,   \* cfg.border_width
    panels,         \* MultiMessageDialog: self.panels, a panel being its box's index
    current_panel,  \* MultiMessageDialog: self.current_panel
    closed,         \* whether self.close() has been called
    error,          \* the exception the constructor raised, or None
    ret,            \* <<what the last process_event call returned>>, <<>> before it
    last_event,     \* <<the event of the last process_event call>>, <<>> before it
    confirms,       \* how many KEYDOWN events of an action key were processed
    shown,          \* the panels added as the displayed widget, in order
    \* a MessageQueue and the context stack
    queue,          \* self.queue
    current,        \* self.current: <<dialog>>, or <<>> for None
    controller,     \* self.controller: <<controller>>, or <<>> for None
    stack,          \* the controllers passed to stack_context, in order
    done,           \* the ids of the controllers whose is_done() is true
    pushed,         \* how many dialogs were pushed; the next dialog's id is pushed + 1
    last_op         \* the MessageQueue method called last, or "done" for a completion

wrapVars == <<text, box_width, lines, box_height, line_spacing, boxes>>

cfgVars == <<kind, block_movement, choices, screen_width, screen_height, border_width>>

dlgVars == <<choice_lines, panels, current_panel, closed, error, ret, last_event,
             confirms, shown>>

mqVars == <<queue, current, controller, stack, done, pushed, last_op>>

vars == <<pc, wrapVars, cfgVars, dlgVars, mqVars>>

\* ------------------------------------------------------------------ bounds
MaxLen == 6          \* longest text, in characters
MaxWidth == 6        \* widest box_width passed to build_lines
MaxLines == 3        \* longest line list passed to split_boxes directly
MaxLineHeight == 2   \* tallest line passed to split_boxes directly
MaxBoxHeight == 4    \* largest box_height passed to split_boxes directly
MaxSpacing == 1      \* largest line_spacing
MaxWords == 3        \* most words in a dialog's text
MaxScreenWidth == 3  \* largest g_cfg.screen_width
MaxScreenHeight == 4 \* largest g_cfg.screen_height
MaxBorder == 1       \* largest cfg.border_width
MaxConfirms == 3     \* most action-key presses sent to one dialog
MaxPush == 4         \* most dialogs pushed onto one MessageQueue

\* ------------------------------------------------------------------ strings
\* The alphabet of the texts: a narrow low glyph, a wide tall glyph and the
\* whitespace character.
Chars == {"a", "B", " "}

Strings(n) == UNION {[1..k -> Chars] : k \in 0..n}

None == "None"
NoPanel == 0         \* self.current_panel = None; the panels are numbered from 1
IndexError == "IndexError"

\* font.size(s): the pair <<width, height>> of the rendered string.  Widths add
\* up over the glyphs; the height is the height of the tallest glyph, so it
\* varies with the string measured.
GlyphWidth(c) == IF c = "B" THEN 2 ELSE 1
GlyphHeight(c) == IF c = "B" THEN 2 ELSE 1

RECURSIVE SumWidth(_)
SumWidth(s) == IF s = <<>> THEN 0 ELSE GlyphWidth(Head(s)) + SumWidth(Tail(s))

RECURSIVE MaxGlyphHeight(_)
MaxGlyphHeight(s) ==
    IF s = <<>> THEN 1
    ELSE LET h == GlyphHeight(Head(s))
             r == MaxGlyphHeight(Tail(s))
         IN IF h > r THEN h ELSE r

font_size(s) == <<SumWidth(s), MaxGlyphHeight(s)>>

\* str.split(): the maximal runs of non-whitespace characters, in order.
RECURSIVE SplitAcc(_, _, _)
SplitAcc(s, cur, acc) ==
    IF s = <<>>
    THEN IF cur = <<>> THEN acc ELSE Append(acc, cur)
    ELSE IF Head(s) = " "
         THEN SplitAcc(Tail(s), <<>>, IF cur = <<>> THEN acc ELSE Append(acc, cur))
         ELSE SplitAcc(Tail(s), Append(cur, Head(s)), acc)

split(s) == SplitAcc(s, <<>>, <<>>)

\* ------------------------------------------------------------------ build_lines
\* A wrapper that joins the words without the separating space.
projected_unspaced(cur_line, word) == cur_line \o word

\* cur_line + ' ' + word
projected(cur_line, word) == cur_line \o <<" ">> \o word

\* A wrapper that lets a line run one pixel over the box.
overflows_lenient(width, bw) == width > bw + 1

\* A wrapper that treats a line filling the box exactly as overflowing.
overflows_eager(width, bw) == width >= bw

\* if width > box_width
overflows(width, bw) == width > bw

\* A loop that stores the projected line, not cur_line, on overflow.
RECURSIVE build_loop_projected(_, _, _, _, _)
build_loop_projected(words, cur_line, height, acc, bw) ==
    IF words = <<>>
    THEN Append(acc, <<height, cur_line>>)
    ELSE LET word == Head(words)
             projected_line == projected(cur_line, word)
             sz == font_size(projected_line)
         IN IF overflows(sz[1], bw)
            THEN build_loop_projected(Tail(words), word, sz[2],
                                      Append(acc, <<sz[2], projected_line>>), bw)
            ELSE build_loop_projected(Tail(words), projected_line, sz[2], acc, bw)

\* The for loop of build_lines over words[1:], and the append after it.
\* "height" is the loop's variable of that name: the height last measured.
RECURSIVE build_loop(_, _, _, _, _)
build_loop(words, cur_line, height, acc, bw) ==
    IF words = <<>>
    THEN Append(acc, <<height, cur_line>>)
    ELSE LET word == Head(words)
             projected_line == projected(cur_line, word)
             sz == font_size(projected_line)
         IN IF overflows(sz[1], bw)
            THEN build_loop(Tail(words), word, sz[2],
                            Append(acc, <<sz[2], cur_line>>), bw)
            ELSE build_loop(Tail(words), projected_line, sz[2], acc, bw)

\* A wrapper that returns an empty list for a text with no word.
build_lines_lenient(t, bw) ==
    LET words == split(t)
    IN IF words = <<>>
       THEN <<>>
       ELSE build_loop(Tail(words), words[1], font_size(words[1])[2], <<>>, bw)

\* build_lines(text, box_width, font); words[0] raises IndexError on a text
\* with no word.
build_lines(t, bw) ==
    LET words == split(t)
    IN IF words = <<>>
       THEN IndexError
       ELSE build_loop(Tail(words), words[1], font_size(words[1])[2], <<>>, bw)

\* ------------------------------------------------------------------ split_boxes
\* A splitter that forgets the spacing between the lines of a box.
box_overflows_unspaced(box_cur_height, line, ls, bh) == box_cur_height + line[1] > bh

\* if box_cur_height + line[0] + line_spacing > box_height
box_overflows(box_cur_height, line, ls, bh) == box_cur_height + line[1] + ls > bh

\* The for loop of split_boxes over lines[1:], and the append after it.
RECURSIVE split_loop(_, _, _, _, _, _)
split_loop(ls_, box, box_cur_height, acc, bh, ls) ==
    IF ls_ = <<>>
    THEN IF box # <<>> THEN Append(acc, box) ELSE acc
    ELSE LET line == Head(ls_)
         IN IF box_overflows(box_cur_height, line, ls, bh)
            THEN split_loop(Tail(ls_), <<line>>, line[1], Append(acc, box), bh, ls)
            ELSE split_loop(Tail(ls_), Append(box, line),
                            box_cur_height + line[1] + ls, acc, bh, ls)

\* A splitter that starts from an empty box instead of [lines[0]].
split_boxes_emptyfirst(ls_, bh, ls) ==
    IF ls_ = <<>>
    THEN IndexError
    ELSE split_loop(Tail(ls_), <<>>, ls_[1][1], <<>>, bh, ls)

\* split_boxes(lines, box_height, line_spacing); lines[0] raises IndexError on
\* an empty list.
split_boxes(ls_, bh, ls) ==
    IF ls_ = <<>>
    THEN IndexError
    ELSE split_loop(Tail(ls_), <<ls_[1]>>, ls_[1][1], <<>>, bh, ls)

\* ------------------------------------------------------------------ no dialog
\* The state of the dialog variables before any dialog is constructed.
Unbuilt ==
    /\ choice_lines = <<>>
    /\ panels = <<>>
    /\ current_panel = NoPanel
    /\ closed = FALSE
    /\ error = None
    /\ ret = <<>>
    /\ last_event = <<>>
    /\ confirms = 0
    /\ shown = <<>>

\* The scenarios without a MessageQueue.
NoQueue ==
    /\ queue = <<>>
    /\ current = <<>>
    /\ controller = <<>>
    /\ stack = <<>>
    /\ done = {}
    /\ pushed = 0
    /\ last_op = "init"

\* The scenarios that construct no dialog.
NoDialog ==
    /\ kind = None
    /\ block_movement = FALSE
    /\ choices = <<>>
    /\ screen_width = 0
    /\ screen_height = 0
    /\ border_width = 0
    /\ Unbuilt

\* ------------------------------------------------------------------ the wrapper scenario
\* A caller passes a text and a box width to build_lines.
InitWrap ==
    /\ pc = "wrap_start"
    /\ text \in Strings(MaxLen)
    /\ box_width \in 0..MaxWidth
    /\ lines = <<>>
    /\ box_height = 0
    /\ line_spacing = 0
    /\ boxes = <<>>
    /\ NoDialog
    /\ NoQueue

BuildLines ==
    /\ pc = "wrap_start"
    /\ LET r == build_lines(text, box_width)
       IN /\ lines' = IF r = IndexError THEN <<>> ELSE r
          /\ pc' = IF r = IndexError THEN "wrap_error" ELSE "wrapped"
    /\ UNCHANGED <<text, box_width, box_height, line_spacing, boxes>>
    /\ UNCHANGED <<cfgVars, dlgVars, mqVars>>

NextWrap == BuildLines

SpecWrap == InitWrap /\ [][NextWrap]_vars

\* ------------------------------------------------------------------ the splitter scenario
\* A caller passes a list of lines, a box height and a spacing to split_boxes.
LineTexts == {<<"a">>, <<"B">>}

LineSeqs == UNION {[1..k -> (0..MaxLineHeight) \X LineTexts] : k \in 1..MaxLines}

InitSplit ==
    /\ pc = "split_start"
    /\ text = <<>>
    /\ box_width = 0
    /\ lines \in LineSeqs
    /\ box_height \in 0..MaxBoxHeight
    /\ line_spacing \in 0..MaxSpacing
    /\ boxes = <<>>
    /\ NoDialog
    /\ NoQueue

SplitBoxes ==
    /\ pc = "split_start"
    /\ boxes' = split_boxes(lines, box_height, line_spacing)
    /\ pc' = "split_done"
    /\ UNCHANGED <<text, box_width, lines, box_height, line_spacing>>
    /\ UNCHANGED <<cfgVars, dlgVars, mqVars>>

NextSplit == SplitBoxes

SpecSplit == InitSplit /\ [][NextSplit]_vars

\* ------------------------------------------------------------------ dialogs
\* sum([line[0] for line in lines])
RECURSIVE SumHeights(_)
SumHeights(ls_) == IF ls_ = <<>> THEN 0 ELSE Head(ls_)[1] + SumHeights(Tail(ls_))

MessageDialog == "MessageDialog"
ElasticMessageDialog == "ElasticMessageDialog"
MultiMessageDialog == "MultiMessageDialog"
ChoiceDialog == "ChoiceDialog"
Kinds == {MessageDialog, ElasticMessageDialog, MultiMessageDialog, ChoiceDialog}

AssertionError == "AssertionError"

\* Events: key presses and key releases.  The key sets of the game
\* configuration are disjoint.
KEYDOWN == "KEYDOWN"
KEYUP == "KEYUP"
Keys == {"K_RETURN", "K_LEFT", "K_RIGHT", "K_ESCAPE"}
key_action == {"K_RETURN"}
key_left == {"K_LEFT"}
key_right == {"K_RIGHT"}
Events == [type : {KEYDOWN}, key : Keys] \cup [type : {KEYUP}, key : {"K_RETURN", "K_LEFT"}]

\* The texts given to dialogs: up to MaxWords words joined by single spaces.
Words == {<<"a">>, <<"B">>}

RECURSIVE join(_)
join(ws) ==
    IF ws = <<>> THEN <<>>
    ELSE IF Len(ws) = 1 THEN ws[1]
    ELSE ws[1] \o <<" ">> \o join(Tail(ws))

DialogTexts == {join(ws) : ws \in UNION {[1..k -> Words] : k \in 0..MaxWords}}

\* The choice lists given to a ChoiceDialog; the last holds a choice with no word.
ChoiceLists == { << <<"a">>, <<"B", " ", "a">> >>,
                 << <<"a">>, <<" ">> >> }

\* An assertion that also lets through a box exactly as high as the screen.
fits_screen_inclusive(bh, sh) == bh <= sh

\* assert self.box_height < g_cfg.screen_height
fits_screen(bh, sh) == bh < sh

\* ElasticMessageDialog: self.box_height
elastic_box_height(ls_, sp, bw) == SumHeights(ls_) + (Len(ls_) - 1) * sp + 4 * bw

\* An advance that leaves the last panel in place when no panel remains.
advance_panel_keep(cur, ps) ==
    IF ps # <<>>
    THEN [current_panel |-> Head(ps), panels |-> Tail(ps), added |-> <<Head(ps)>>]
    ELSE [current_panel |-> cur, panels |-> ps, added |-> <<>>]

\* MultiMessageDialog.advance_panel: the new current_panel and panels, and the
\* panel added as a widget, if any.
advance_panel(cur, ps) ==
    IF ps # <<>>
    THEN [current_panel |-> Head(ps), panels |-> Tail(ps), added |-> <<Head(ps)>>]
    ELSE [current_panel |-> NoPanel, panels |-> ps, added |-> <<>>]

\* ChoiceDialog.__build_lines: the choice lines, or IndexError.
RECURSIVE build_choice_lines(_, _)
build_choice_lines(cs, bw) ==
    IF cs = <<>> THEN <<>>
    ELSE LET choice_line == build_lines(Head(cs), bw)
             rest == build_choice_lines(Tail(cs), bw)
         IN IF choice_line = IndexError \/ rest = IndexError
            THEN IndexError
            ELSE choice_line \o rest

InitDialog ==
    /\ pc = "dlg_start"
    /\ kind \in Kinds
    /\ text \in DialogTexts
    /\ block_movement \in BOOLEAN
    /\ choices \in (IF kind = ChoiceDialog THEN ChoiceLists ELSE {<<>>})
    /\ screen_width \in (MaxScreenWidth - 1)..MaxScreenWidth
    /\ screen_height \in 1..MaxScreenHeight
    /\ border_width \in 0..MaxBorder
    /\ line_spacing \in 0..MaxSpacing
    /\ box_width = 0
    /\ box_height = 0
    /\ lines = <<>>
    /\ boxes = <<>>
    /\ Unbuilt
    /\ NoQueue

\* The constructor raised: no instance exists.
Raise(e) ==
    /\ pc' = "dlg_error"
    /\ error' = e

\* MessageDialog.__init__
ConstructMessageDialog ==
    /\ pc = "dlg_start"
    /\ kind = MessageDialog
    /\ box_width' = screen_width - 4 * border_width
    /\ LET r == build_lines(text, box_width')
       IN IF r = IndexError
          THEN Raise(IndexError) /\ lines' = <<>>
          ELSE pc' = "dlg_open" /\ lines' = r /\ UNCHANGED error
    /\ UNCHANGED <<text, box_height, line_spacing, boxes, cfgVars, mqVars>>
    /\ UNCHANGED <<choice_lines, panels, current_panel, closed, ret, last_event,
                   confirms, shown>>

\* ElasticMessageDialog.__init__
ConstructElasticMessageDialog ==
    /\ pc = "dlg_start"
    /\ kind = ElasticMessageDialog
    /\ box_width' = screen_width - 4 * border_width
    /\ LET r == build_lines(text, box_width')
       IN IF r = IndexError
          THEN Raise(IndexError) /\ lines' = <<>> /\ UNCHANGED box_height
          ELSE /\ lines' = r
               /\ box_height' = elastic_box_height(r, line_spacing, border_width)
               /\ IF fits_screen(box_height', screen_height)
                  THEN pc' = "dlg_open" /\ UNCHANGED error
                  ELSE Raise(AssertionError)
    /\ UNCHANGED <<text, line_spacing, boxes, cfgVars, mqVars>>
    /\ UNCHANGED <<choice_lines, panels, current_panel, closed, ret, last_event,
                   confirms, shown>>

\* MultiMessageDialog.__init__; screen_height / 2 is the integer division of
\* two integers.
ConstructMultiMessageDialog ==
    /\ pc = "dlg_start"
    /\ kind = MultiMessageDialog
    /\ box_width' = screen_width - 4 * border_width
    /\ LET r == build_lines(text, box_width')
       IN IF r = IndexError
          THEN /\ Raise(IndexError)
               /\ lines' = <<>>
               /\ UNCHANGED <<box_height, boxes, panels, current_panel, shown>>
          ELSE /\ lines' = r
               /\ box_height' = (screen_height \div 2) - 4 * border_width
               /\ boxes' = split_boxes(r, box_height', line_spacing)
               /\ LET a == advance_panel(NoPanel, [i \in 1..Len(boxes') |-> i])
                  IN /\ current_panel' = a.current_panel
                     /\ panels' = a.panels
                     /\ shown' = shown \o a.added
               /\ pc' = "dlg_open"
               /\ UNCHANGED error
    /\ UNCHANGED <<text, line_spacing, cfgVars, mqVars>>
    /\ UNCHANGED <<choice_lines, closed, ret, last_event, confirms>>

\* ChoiceDialog.__init__ and __build_lines; self.width is the width passed to
\* Menu.__init__.
ConstructChoiceDialog ==
    /\ pc = "dlg_start"
    /\ kind = ChoiceDialog
    /\ LET width == screen_width - 2 * border_width
           r == build_lines(text, width - 2 * border_width)
           c == IF r = IndexError THEN IndexError
                ELSE build_choice_lines(choices, width - 3 * border_width)
       IN /\ box_width' = width - 2 * border_width
          /\ lines' = IF r = IndexError THEN <<>> ELSE r
          /\ IF c = IndexError
             THEN Raise(IndexError) /\ UNCHANGED choice_lines
             ELSE pc' = "dlg_open" /\ choice_lines' = c /\ UNCHANGED error
    /\ UNCHANGED <<text, box_height, line_spacing, boxes, cfgVars, mqVars>>
    /\ UNCHANGED <<panels, current_panel, closed, ret, last_event, confirms, shown>>

\* A KEYDOWN of an action key.
IsConfirm(e) == e.type = KEYDOWN /\ e.key \in key_action

\* A handler that reports the event as handled when it closes the dialog.
MessageDialog_process_event_handled(e) ==
    [close |-> e.type = KEYDOWN /\ e.key \in key_action,
     ret |-> IF e.type = KEYDOWN /\ e.key \in key_action THEN TRUE ELSE block_movement]

\* MessageDialog.process_event: whether it calls close(), and what it returns.
MessageDialog_process_event(e) ==
    [close |-> e.type = KEYDOWN /\ e.key \in key_action,
     ret |-> block_movement]

\* ElasticMessageDialog.process_event
ElasticMessageDialog_process_event(e) ==
    [close |-> e.type = KEYDOWN /\ e.key \in key_action,
     ret |-> block_movement]

\* MultiMessageDialog.process_event
MultiMessageDialog_process_event(e) ==
    IF e.type = KEYDOWN /\ e.key \in key_action
    THEN LET a == advance_panel(current_panel, panels)
         IN [current_panel |-> a.current_panel, panels |-> a.panels,
             added |-> a.added, close |-> a.current_panel = NoPanel,
             ret |-> block_movement]
    ELSE [current_panel |-> current_panel, panels |-> panels,
          added |-> <<>>, close |-> FALSE, ret |-> block_movement]

\* A handler that closes on a KEYDOWN of any key.
ChoiceDialog_process_event_anykey(e) ==
    [close |-> e.type = KEYDOWN,
     ret |-> IF e.type = KEYDOWN /\ (e.key \in key_left \/ e.key \in key_right)
             THEN TRUE
             ELSE block_movement]

\* ChoiceDialog.process_event
ChoiceDialog_process_event(e) ==
    [close |-> e.type = KEYDOWN /\ e.key \in key_action,
     ret |-> IF e.type = KEYDOWN /\ (e.key \in key_left \/ e.key \in key_right)
             THEN TRUE
             ELSE block_movement]

\* What every process_event call records.
Record(e) ==
    /\ IsConfirm(e) => confirms < MaxConfirms
    /\ last_event' = <<e>>
    /\ confirms' = IF IsConfirm(e) THEN confirms + 1 ELSE confirms

ProcessEventMessageDialog ==
    /\ pc = "dlg_open"
    /\ kind = MessageDialog
    /\ \E e \in Events :
        /\ Record(e)
        /\ closed' = (closed \/ MessageDialog_process_event(e).close)
        /\ ret' = <<MessageDialog_process_event(e).ret>>
    /\ UNCHANGED <<pc, wrapVars, cfgVars, mqVars>>
    /\ UNCHANGED <<choice_lines, panels, current_panel, error, shown>>

ProcessEventElasticMessageDialog ==
    /\ pc = "dlg_open"
    /\ kind = ElasticMessageDialog
    /\ \E e \in Events :
        /\ Record(e)
        /\ closed' = (closed \/ ElasticMessageDialog_process_event(e).close)
        /\ ret' = <<ElasticMessageDialog_process_event(e).ret>>
    /\ UNCHANGED <<pc, wrapVars, cfgVars, mqVars>>
    /\ UNCHANGED <<choice_lines, panels, current_panel, error, shown>>

ProcessEventMultiMessageDialog ==
    /\ pc = "dlg_open"
    /\ kind = MultiMessageDialog
    /\ \E e \in Events :
        /\ Record(e)
        /\ LET r == MultiMessageDialog_process_event(e)
           IN /\ current_panel' = r.current_panel
              /\ panels' = r.panels
              /\ shown' = shown \o r.added
              /\ closed' = (closed \/ r.close)
              /\ ret' = <<r.ret>>
    /\ UNCHANGED <<pc, wrapVars, cfgVars, mqVars>>
    /\ UNCHANGED <<choice_lines, error>>

ProcessEventChoiceDialog ==
    /\ pc = "dlg_open"
    /\ kind = ChoiceDialog
    /\ \E e \in Events :
        /\ Record(e)
        /\ closed' = (closed \/ ChoiceDialog_process_event(e).close)
        /\ ret' = <<ChoiceDialog_process_event(e).ret>>
    /\ UNCHANGED <<pc, wrapVars, cfgVars, mqVars>>
    /\ UNCHANGED <<choice_lines, panels, current_panel, error, shown>>

NextDialog ==
    \/ ConstructMessageDialog
    \/ ConstructElasticMessageDialog
    \/ ConstructMultiMessageDialog
    \/ ConstructChoiceDialog
    \/ ProcessEventMessageDialog
    \/ ProcessEventElasticMessageDialog
    \/ ProcessEventMultiMessageDialog
    \/ ProcessEventChoiceDialog

SpecDialog == InitDialog /\ [][NextDialog]_vars

\* ------------------------------------------------------------------ MessageQueue
\* A pushed dialog is known by the order of its push and its block_movement.
\* A controller is known by the order of its creation and the menu it wraps.

\* MenuController(self.current): a fresh controller; its id counts the
\* controllers created so far.
MenuController(menu, st) == [id |-> Len(st) + 1, menu |-> menu]

\* controller.is_done()
is_done(c) == c.id \in done

\* An is_busy that forgets the dialog's block_movement.
is_busy_any == current # <<>>

\* MessageQueue.is_busy
is_busy == current # <<>> /\ current[1].block_movement

\* An is_active that also counts the dialogs still pending.
is_active_pending == current # <<>> \/ queue # <<>>

\* MessageQueue.is_active
is_active == current # <<>>

\* A pop_next that takes the dialog pushed last.
pop_next_lifo(cur, q, ctl, st) ==
    IF cur = <<>> /\ q # <<>>
    THEN LET c == MenuController(q[Len(q)], st)
         IN [current |-> <<q[Len(q)]>>, queue |-> SubSeq(q, 1, Len(q) - 1),
             controller |-> <<c>>, stack |-> Append(st, c)]
    ELSE [current |-> cur, queue |-> q, controller |-> ctl, stack |-> st]

\* A pop_next that does not look at self.current.
pop_next_unguarded(cur, q, ctl, st) ==
    IF q # <<>>
    THEN LET c == MenuController(Head(q), st)
         IN [current |-> <<Head(q)>>, queue |-> Tail(q),
             controller |-> <<c>>, stack |-> Append(st, c)]
    ELSE [current |-> cur, queue |-> q, controller |-> ctl, stack |-> st]

\* A pop_next that stacks a controller but keeps the old one in
\* self.controller.
pop_next_stale(cur, q, ctl, st) ==
    IF cur = <<>> /\ q # <<>>
    THEN LET c == MenuController(Head(q), st)
         IN [current |-> <<Head(q)>>, queue |-> Tail(q),
             controller |-> IF ctl = <<>> THEN <<c>> ELSE ctl,
             stack |-> Append(st, c)]
    ELSE [current |-> cur, queue |-> q, controller |-> ctl, stack |-> st]

\* MessageQueue.pop_next, from the given current, queue, controller and
\* context stack to the new ones.
pop_next(cur, q, ctl, st) ==
    IF cur = <<>> /\ q # <<>>
    THEN LET c == MenuController(Head(q), st)
         IN [current |-> <<Head(q)>>, queue |-> Tail(q),
             controller |-> <<c>>, stack |-> Append(st, c)]
    ELSE [current |-> cur, queue |-> q, controller |-> ctl, stack |-> st]

\* MessageQueue.__init__
Init ==
    /\ pc = "queue"
    /\ queue = <<>>
    /\ current = <<>>
    /\ controller = <<>>
    /\ stack = <<>>
    /\ done = {}
    /\ pushed = 0
    /\ last_op = "init"
    /\ text = <<>>
    /\ box_width = 0
    /\ lines = <<>>
    /\ box_height = 0
    /\ line_spacing = 0
    /\ boxes = <<>>
    /\ NoDialog

\* A push that presents the dialog at once when the queue is idle.
Push_eager ==
    /\ pc = "queue"
    /\ pushed < MaxPush
    /\ \E b \in BOOLEAN :
         LET r == pop_next(current,
                           Append(queue, [id |-> pushed + 1, block_movement |-> b]),
                           controller, stack)
         IN /\ current' = r.current
            /\ queue' = r.queue
            /\ controller' = r.controller
            /\ stack' = r.stack
    /\ pushed' = pushed + 1
    /\ last_op' = "push"
    /\ UNCHANGED <<pc, done, wrapVars, cfgVars, dlgVars>>

\* MessageQueue.push(message)
Push ==
    /\ pc = "queue"
    /\ pushed < MaxPush
    /\ \E b \in BOOLEAN :
         queue' = Append(queue, [id |-> pushed + 1, block_movement |-> b])
    /\ pushed' = pushed + 1
    /\ last_op' = "push"
    /\ UNCHANGED <<pc, current, controller, stack, done, wrapVars, cfgVars, dlgVars>>

\* The host calls MessageQueue.pop_next() itself.
PopNext ==
    /\ pc = "queue"
    /\ LET r == pop_next(current, queue, controller, stack)
       IN /\ current' = r.current
          /\ queue' = r.queue
          /\ controller' = r.controller
          /\ stack' = r.stack
    /\ last_op' = "pop_next"
    /\ UNCHANGED <<pc, done, pushed, wrapVars, cfgVars, dlgVars>>

\* An update that returns once it has cleared the current slot, leaving the
\* next dialog to the next call.
Update_lazy ==
    /\ pc = "queue"
    /\ IF controller # <<>> /\ is_done(controller[1]) /\ current # <<>>
       THEN /\ current' = <<>>
            /\ UNCHANGED <<queue, controller, stack>>
       ELSE LET r == pop_next(current, queue, controller, stack)
            IN /\ current' = r.current
               /\ queue' = r.queue
               /\ controller' = r.controller
               /\ stack' = r.stack
    /\ last_op' = "update"
    /\ UNCHANGED <<pc, done, pushed, wrapVars, cfgVars, dlgVars>>

\* MessageQueue.update()
Update ==
    /\ pc = "queue"
    /\ LET cleared == IF controller # <<>> /\ is_done(controller[1])
                      THEN <<>>
                      ELSE current
           r == pop_next(cleared, queue, controller, stack)
       IN /\ current' = r.current
          /\ queue' = r.queue
          /\ controller' = r.controller
          /\ stack' = r.stack
    /\ last_op' = "update"
    /\ UNCHANGED <<pc, done, pushed, wrapVars, cfgVars, dlgVars>>

\* The menu of a stacked controller closes: the controller reports done from
\* now on.  It stays in the record of the stacked controllers.
ControllerDone ==
    /\ pc = "queue"
    /\ \E i \in DOMAIN stack :
         /\ ~is_done(stack[i])
         /\ done' = done \cup {stack[i].id}
    /\ last_op' = "done"
    /\ UNCHANGED <<pc, queue, current, controller, stack, pushed, wrapVars, cfgVars,
                   dlgVars>>

Next ==
    \/ Push
    \/ PopNext
    \/ Update
    \/ ControllerDone

Spec == Init /\ [][Next]_vars

\* The host loop calls update() every tick, and every presented dialog is
\* eventually closed by the player.
SpecLive == Init /\ [][Next]_vars /\ WF_vars(Update) /\ WF_vars(ControllerDone)

\* ================================================================== claims
Range(f) == {f[i] : i \in DOMAIN f}

RECURSIVE Flatten(_)
Flatten(ss) == IF ss = <<>> THEN <<>> ELSE Head(ss) \o Flatten(Tail(ss))

\* The words of the lines, line after line.
LineWords(ls_) == Flatten([i \in DOMAIN ls_ |-> split(ls_[i][2])])

\* Every word of the text fits the box on its own.
WordsFit == \A w \in Range(split(text)) : font_size(w)[1] <= box_width

\* C4: when the text has a word and box_width is at least the width of its
\* widest word, every line build_lines returns measures at most box_width.
C4_LinesFitBox ==
    (pc = "wrapped" /\ WordsFit) =>
        \A i \in DOMAIN lines : font_size(lines[i][2])[1] <= box_width

\* C4 witness: a wrap into several lines, one of them of several words, of a
\* text whose words all fit the box.
C4_Witness ==
    /\ pc = "wrapped"
    /\ WordsFit
    /\ Len(lines) >= 2
    /\ \E i \in DOMAIN lines : Len(split(lines[i][2])) >= 2

\* C5: the words of the lines build_lines returns, taken line after line, are
\* the words of the text in the same order, for every box_width.
C5_WordsPreserved ==
    pc = "wrapped" => LineWords(lines) = split(text)

\* C5 witness: a wrap of at least three words into several lines, in a box
\* narrower than one of the words.
C5_Witness ==
    /\ pc = "wrapped"
    /\ ~WordsFit
    /\ Len(split(text)) >= 3
    /\ Len(lines) >= 2
    /\ \E i \in DOMAIN lines : Len(split(lines[i][2])) >= 2

\* C6: the height stored with every line build_lines returns is the font's
\* height of that line's own text.
C6_HeightOfOwnText ==
    pc = "wrapped" =>
        \A i \in DOMAIN lines : lines[i][1] = font_size(lines[i][2])[2]

\* The height of a box: its line heights plus the spacing between its lines.
BoxTotal(box, ls) == SumHeights(box) + (Len(box) - 1) * ls

\* C7: every box split_boxes returns is at most box_height high, except a box
\* of a single line that is itself higher than box_height; a line higher
\* than box_height is alone in its box.
C7_BoxesFit ==
    pc = "split_done" =>
        \A b \in DOMAIN boxes :
            /\ \/ BoxTotal(boxes[b], line_spacing) <= box_height
               \/ Len(boxes[b]) = 1 /\ boxes[b][1][1] > box_height
            /\ (\E i \in DOMAIN boxes[b] : boxes[b][i][1] > box_height)
                   => Len(boxes[b]) = 1

\* C7 witness: a split with a positive spacing into a box of several lines
\* that fills the height exactly and a box of one oversized line.
C7_Witness ==
    /\ pc = "split_done"
    /\ line_spacing > 0
    /\ \E b \in DOMAIN boxes :
          Len(boxes[b]) >= 2 /\ BoxTotal(boxes[b], line_spacing) = box_height
    /\ \E b \in DOMAIN boxes :
          Len(boxes[b]) = 1 /\ boxes[b][1][1] > box_height

\* C8: split_boxes returns non-empty boxes whose concatenation is the input
\* line list.
C8_BoxesPartitionLines ==
    pc = "split_done" =>
        /\ \A b \in DOMAIN boxes : boxes[b] # <<>>
        /\ Flatten(boxes) = lines

\* C8 witness: a split of three lines into several boxes, one of them of
\* several lines.
C8_Witness ==
    /\ pc = "split_done"
    /\ Len(lines) >= 3
    /\ Len(boxes) >= 2
    /\ \E b \in DOMAIN boxes : Len(boxes[b]) >= 2

\* C3: a MultiMessageDialog of N >= 1 pages shows the first page once
\* constructed; after k action-key presses it has shown the pages 1..min(k+1, N)
\* in that order, each once, displays page k+1 while k < N, and is closed
\* exactly when k >= N.
C3_PagesInOrder ==
    (pc = "dlg_open" /\ kind = MultiMessageDialog) =>
        LET N == Len(boxes)
            upto == IF confirms + 1 < N THEN confirms + 1 ELSE N
        IN /\ N >= 1
           /\ shown = [i \in 1..upto |-> i]
           /\ current_panel = IF confirms < N THEN confirms + 1 ELSE NoPanel
           /\ closed <=> confirms >= N

\* C3 witness: a dialog of three pages closed by the third action-key press.
C3_Witness ==
    /\ pc = "dlg_open"
    /\ kind = MultiMessageDialog
    /\ Len(boxes) = 3
    /\ confirms = 3
    /\ closed
    /\ shown = <<1, 2, 3>>

\* C9: constructing an ElasticMessageDialog from a text with a word raises the
\* assertion error and leaves no dialog when the sum of the line heights plus
\* (number of lines - 1) * line_spacing plus 4 * border_width is at least the
\* screen height, and succeeds with that box_height when it is less.
C9_ElasticHeightGuard ==
    (kind = ElasticMessageDialog /\ pc # "dlg_start" /\ error # IndexError) =>
        LET h == SumHeights(lines) + (Len(lines) - 1) * line_spacing
                 + 4 * border_width
        IN /\ h >= screen_height =>
                /\ pc = "dlg_error"
                /\ error = AssertionError
                /\ ~closed
                /\ ret = <<>>
           /\ h < screen_height =>
                /\ pc = "dlg_open"
                /\ error = None
                /\ box_height = h
                /\ box_height < screen_height

\* C9 witness: a construction that fails on a text of several lines whose box
\* is exactly as high as the screen.
C9_Witness ==
    /\ kind = ElasticMessageDialog
    /\ pc = "dlg_error"
    /\ error = AssertionError
    /\ Len(lines) >= 2
    /\ SumHeights(lines) + (Len(lines) - 1) * line_spacing + 4 * border_width
         = screen_height

\* C10: process_event returns the dialog's block_movement for every event and
\* every dialog class, except that a ChoiceDialog returns True for a KEYDOWN
\* of a left or right key.
C10_ReturnsBlockMovement ==
    (pc = "dlg_open" /\ last_event # <<>>) =>
        LET e == last_event[1]
        IN ret = << IF /\ kind = ChoiceDialog
                       /\ e.type = KEYDOWN
                       /\ e.key \in (key_left \cup key_right)
                    THEN TRUE
                    ELSE block_movement >>

\* C10 witness: a non-blocking MultiMessageDialog of several pages whose last
\* event, an action-key press, closed it and returned False.
C10_Witness ==
    /\ pc = "dlg_open"
    /\ kind = MultiMessageDialog
    /\ ~block_movement
    /\ Len(boxes) >= 2
    /\ closed
    /\ confirms = Len(boxes)
    /\ last_event # <<>>
    /\ IsConfirm(last_event[1])
    /\ ret = <<FALSE>>

\* C1: dialogs become current in the order of their pushes, each one only
\* after the controllers of all dialogs that became current before it have
\* reported done; the dialogs still queued are the later pushes, in order.
C1_PresentedInPushOrder ==
    pc = "queue" =>
        /\ \A i \in DOMAIN stack : stack[i].menu.id = i
        /\ \A i \in DOMAIN stack : i < Len(stack) => is_done(stack[i])
        /\ \A j \in DOMAIN queue : queue[j].id = Len(stack) + j
        /\ Len(stack) + Len(queue) = pushed

\* C1 witness: the third of three pushed dialogs is current, after the first
\* two have completed.
C1_Witness ==
    /\ pc = "queue"
    /\ pushed = 3
    /\ Len(stack) = 3
    /\ current # <<>>
    /\ current[1].id = 3
    /\ ~is_done(stack[3])

\* C2: at most one controller stacked by the queue has not reported done.
C2_OneActiveDialog ==
    pc = "queue" =>
        Cardinality({i \in DOMAIN stack : ~is_done(stack[i])}) <= 1

\* C2 witness: a dialog is current and not done while another waits in the
\* queue and an earlier one has completed.
C2_Witness ==
    /\ pc = "queue"
    /\ Len(stack) = 2
    /\ is_done(stack[1])
    /\ ~is_done(stack[2])
    /\ current # <<>>
    /\ queue # <<>>

\* The controller stacked last, the one of the dialog that became current last.
LastStacked == stack[Len(stack)]

\* C11: an update() call that observes the completion of the current dialog
\* while a dialog is pending makes the head of the queue current in the same
\* call, so is_active() is false after an update() only when nothing is
\* pending: before the first dialog is pushed or after the last one completed.
C11_NoIdleGapBetweenDialogs ==
    [][last_op' = "update" =>
          /\ (current # <<>> /\ is_done(LastStacked) /\ queue # <<>>)
                => current' = <<Head(queue)>>
          /\ current' = <<>> => queue' = <<>>
          /\ current' = <<>> => (stack' = <<>> \/ (stack'[Len(stack')]).id \in done')
      ]_vars

\* C11 witness: right after an update() the second dialog is current, the
\* first has completed and a third is pending.
C11_Witness ==
    /\ pc = "queue"
    /\ last_op = "update"
    /\ Len(stack) = 2
    /\ is_done(stack[1])
    /\ current = <<stack[2].menu>>
    /\ Len(queue) = 1

\* C12 as stated: is_active() is true exactly when a controller stacked by the
\* queue has not reported done.
C12_ActiveIffControllerNotDone ==
    pc = "queue" =>
        (is_active <=> \E i \in DOMAIN stack : stack[i].id \notin done)

\* C12 amended: is_active() is true exactly when self.current is set, which is
\* the dialog of the controller stacked last; it is true whenever that
\* controller has not reported done, and right after an update() call it is
\* true exactly when that controller has not reported done.
C12_ActiveUntilNextUpdate ==
    pc = "queue" =>
        /\ is_active => (stack # <<>> /\ current = <<LastStacked.menu>>
                           /\ controller = <<LastStacked>>)
        /\ (stack # <<>> /\ LastStacked.id \notin done) => is_active
        /\ last_op = "update" =>
              (is_active <=> (stack # <<>> /\ LastStacked.id \notin done))

\* C12 witness: the controller of the current dialog has reported done and no
\* update() call has been made since; is_active() is still true.
C12_Witness ==
    /\ pc = "queue"
    /\ last_op = "done"
    /\ is_active
    /\ LastStacked.id \in done

C14_PushOnlyAppends ==
    [][pushed' # pushed =>
          /\ Len(queue') = Len(queue) + 1
          /\ SubSeq(queue', 1, Len(queue)) = queue
          /\ queue'[Len(queue')].id = pushed'
          /\ current' = current
          /\ controller' = controller
          /\ stack' = stack
          /\ done' = done
          /\ is_active' = is_active
          /\ is_busy' = is_busy
      ]_vars

\* C14 witness: a dialog was pushed onto an idle, empty queue and is pending;
\* nothing is current.
C14_Witness ==
    /\ pc = "queue"
    /\ last_op = "push"
    /\ pushed = 1
    /\ Len(queue) = 1
    /\ ~is_active
    /\ stack = <<>>

\* C17: an update() call clears the current slot if the stacked controller
\* reports done; then, only if no dialog is current and the queue is not
\* empty, it removes the head of the queue, makes it current and stacks one
\* fresh controller for it; otherwise the queue, the controller and the stack
\* stay as they are.  A call made while the current dialog's controller is not
\* done changes nothing.
C17_UpdateStep ==
    [][last_op' = "update" =>
          LET cleared == IF controller # <<>> /\ controller[1].id \in done
                         THEN <<>>
                         ELSE current
          IN /\ done' = done
             /\ pushed' = pushed
             /\ IF cleared = <<>> /\ queue # <<>>
                THEN /\ queue' = Tail(queue)
                     /\ current' = <<Head(queue)>>
                     /\ Len(stack') = Len(stack) + 1
                     /\ SubSeq(stack', 1, Len(stack)) = stack
                     /\ controller' = <<stack'[Len(stack')]>>
                     /\ controller'[1].menu = Head(queue)
                     /\ \A i \in DOMAIN stack : stack[i].id # controller'[1].id
                ELSE /\ queue' = queue
                     /\ current' = cleared
                     /\ controller' = controller
                     /\ stack' = stack
             /\ (current # <<>> /\ controller # <<>> /\ controller[1].id \notin done)
                   => UNCHANGED <<queue, current, controller, stack>>
      ]_vars

\* C17 witness: right after an update() call the current dialog's controller
\* is not done and a dialog is still pending.
C17_Witness ==
    /\ pc = "queue"
    /\ last_op = "update"
    /\ current # <<>>
    /\ controller # <<>>
    /\ controller[1].id \notin done
    /\ queue # <<>>
    /\ Len(stack) >= 2

\* C15: wrapping the text of any line build_lines returned, at the same
\* box_width, returns exactly one line with that text.
C15_RewrapIsOneLine ==
    pc = "wrapped" =>
        \A i \in DOMAIN lines :
            LET again == build_lines(lines[i][2], box_width)
            IN /\ again # IndexError
               /\ Len(again) = 1
               /\ again[1][2] = lines[i][2]

\* C15 witness: a wrap into several lines, one of them of several words and
\* as wide as the box.
C15_Witness ==
    /\ pc = "wrapped"
    /\ Len(lines) >= 2
    /\ \E i \in DOMAIN lines :
          /\ Len(split(lines[i][2])) >= 2
          /\ font_size(lines[i][2])[1] = box_width

\* C16: build_lines raises, and returns no lines, exactly when the text has
\* no word; for every other text and every box_width it returns a non-empty
\* list of lines, and split_boxes returns a non-empty list of boxes for it
\* under every box height and spacing.
C16_OnlyEmptyTextFails ==
    pc # "wrap_start" =>
        /\ pc = "wrap_error" <=> split(text) = <<>>
        /\ pc = "wrap_error" => lines = <<>>
        /\ pc = "wrapped" =>
              /\ Len(lines) >= 1
              /\ \A bh \in 0..MaxBoxHeight, sp \in 0..MaxSpacing :
                    LET b == split_boxes(lines, bh, sp)
                    IN b # IndexError /\ Len(b) >= 1

\* C16 witness: build_lines raised on a text of several whitespace characters.
C16_Witness ==
    /\ pc = "wrap_error"
    /\ Len(text) >= 2
    /\ lines = <<>>

\* C18: a line followed by another cannot take the first word of the next
\* line without exceeding box_width; every line of several words measures at
\* most box_width; a word wider than box_width is a line of its own.
C18_GreedyMaximal ==
    pc = "wrapped" =>
        /\ \A i \in DOMAIN lines :
              i < Len(lines) =>
                 font_size(lines[i][2] \o <<" ">> \o split(lines[i + 1][2])[1])[1]
                    > box_width
        /\ \A i \in DOMAIN lines :
              Len(split(lines[i][2])) >= 2 => font_size(lines[i][2])[1] <= box_width
        /\ \A i \in DOMAIN lines :
              \A w \in Range(split(lines[i][2])) :
                  font_size(w)[1] > box_width => lines[i][2] = w

\* C18 witness: a wrap into several lines with a line of several words that
\* fills the box exactly and a line of one word wider than the box.
C18_Witness ==
    /\ pc = "wrapped"
    /\ Len(lines) >= 2
    /\ \E i \in DOMAIN lines :
          /\ Len(split(lines[i][2])) >= 2
          /\ font_size(lines[i][2])[1] = box_width
    /\ \E i \in DOMAIN lines : font_size(lines[i][2])[1] > box_width

\* C19: a process_event call closes a dialog only on a KEYDOWN of an action
\* key; MessageDialog, ElasticMessageDialog and ChoiceDialog are closed by
\* every such event; a ChoiceDialog returns True for a KEYDOWN of a left or
\* right key and that event does not close it.
C19_OnlyConfirmCloses ==
    [][(pc = "dlg_open" /\ pc' = "dlg_open") =>
          LET e == last_event'[1]
              confirm == e.type = KEYDOWN /\ e.key \in key_action
              nav == e.type = KEYDOWN /\ e.key \in (key_left \cup key_right)
          IN /\ (closed' /\ ~closed) => confirm
             /\ closed => closed'
             /\ (confirm /\ kind \in {MessageDialog, ElasticMessageDialog, ChoiceDialog})
                   => closed'
             /\ (nav /\ kind = ChoiceDialog) => (ret' = <<TRUE>> /\ closed' = closed)
      ]_vars

\* C19 witness: an open, non-blocking ChoiceDialog whose last event, a KEYDOWN
\* of a left key, returned True and left it open.
C19_Witness ==
    /\ pc = "dlg_open"
    /\ kind = ChoiceDialog
    /\ ~block_movement
    /\ ~closed
    /\ last_event = <<[type |-> KEYDOWN, key |-> "K_LEFT"]>>
    /\ ret = <<TRUE>>

\* C20: when update() keeps being called and every presented dialog is
\* eventually completed, every pushed dialog becomes current, no dialog is
\* stacked twice, the queue ends idle with nothing pending, and the current
\* dialog is replaced or cleared only after its own controller reported done.
C20_EveryDialogPresentedOnce ==
    /\ \A k \in 1..MaxPush :
          (pushed >= k) ~> (Len(stack) >= k /\ stack[k].menu.id = k)
    /\ <>[](current = <<>> /\ queue = <<>>)
    /\ [](\A i, j \in DOMAIN stack : stack[i].menu.id = stack[j].menu.id => i = j)
    /\ [][(current # <<>> /\ current' # current) =>
             \E i \in DOMAIN stack :
                 stack[i].menu = current[1] /\ stack[i].id \in done]_vars

\* C20 witness: the queue is idle again after an update() call, with the done
\* controller of the last of several presented dialogs left in self.controller.
C20_Witness ==
    /\ pc = "queue"
    /\ last_op = "update"
    /\ current = <<>>
    /\ queue = <<>>
    /\ pushed >= 2
    /\ Len(stack) = pushed
    /\ controller = <<stack[Len(stack)]>>
    /\ controller[1].id \in done

====
